---- MODULE Spec2Model ----
(***************************************************************************)
(* Model of converter.py: kruti_dev_to_unicode(text).                      *)
(*                                                                         *)
(* A Python str is modelled as a sequence of Unicode codepoints, so that   *)
(* the mapping tables, str.replace, the reordering loop and the residual   *)
(* character class are computed on the values the program computes on.     *)
(* Python indices are 0-based; chars[i] of the code is chars[i + 1] here.  *)
(***************************************************************************)
EXTENDS Integers, Sequences, FiniteSets, TLC

VARIABLES
  text,        \* the argument of kruti_dev_to_unicode
  converted,   \* local `converted` (lines 97-105)
  pc,          \* position in the function body
  n,           \* number of loop iterations done in the current replace loop
  applied,     \* history of the stepped loops: the (table, pattern) pairs replaced so far
  chars,       \* local `chars` (line 108)
  i,           \* local `i` (line 109), 0-based as in the code
  handled,     \* history: the values of i at which the branch of line 111 was taken
  result,      \* local `result` (line 118), the returned text
  unconverted, \* local `unconverted` (line 122)
  reported     \* the codepoints written to stderr by line 127, in order

vars == <<text, converted, pc, n, applied, chars, i, handled, result,
          unconverted, reported>>

(***************************************************************************)
(* Literals of the code.                                                   *)
(***************************************************************************)
\* 'f', the legacy unit compared against in line 111
MARKER == 102
\* U+093F, the vowel sign written by line 114
I_MATRA == 2367
\* the slice bound of line 126: sorted(unique)[:10]
REPORT_LIMIT == 10

(***************************************************************************)
(* The two dict displays, entry by entry in source order, each entry       *)
(* <<key, value>> as the Python parser reads it.  On line 94 the text      *)
(* """: "\"", """ is one triple-quoted string literal, so the last entry   *)
(* of single_char_literal has a seven-character key.                       *)
(***************************************************************************)
multi_char_literal ==
  (* line 20 *)
  << << <<91, 43, 107>>, <<2326, 2364>> >>,
     << <<91, 43>>, <<2326, 2364, 2381>> >>,
     << <<120, 43>>, <<2327, 2364>> >>,
     << <<84, 43>>, <<2332, 2364, 2381>> >>,
     << <<116, 43>>, <<2332, 2364>> >>,
  (* line 21 *)
     << <<77, 43>>, <<2337, 2364>> >>,
     << <<60, 43>>, <<2338, 2364>> >>,
     << <<81, 43>>, <<2347, 2364>> >>,
     << <<59, 43>>, <<2351, 2364>> >>,
     << <<106, 43>>, <<2353>> >>,
  (* line 22 *)
     << <<117, 43>>, <<2345>> >>,
     << <<182, 43>>, <<2347, 2364, 2381>> >>,
     << <<100, 43>>, <<2325, 2364>> >>,
  (* line 25 *)
     << <<91, 107>>, <<2326>> >>,
     << <<88, 107>>, <<2327>> >>,
     << <<68, 107>>, <<2325>> >>,
     << <<63, 107>>, <<2328>> >>,
     << <<80, 107>>, <<2330>> >>,
  (* line 26 *)
     << <<84, 107>>, <<2332>> >>,
     << <<70, 107>>, <<2341>> >>,
     << <<47, 107>>, <<2343>> >>,
     << <<39, 107>>, <<2358>> >>,
     << <<34, 107>>, <<2359>> >>,
  (* line 27 *)
     << <<72, 107>>, <<2349>> >>,
     << <<46, 107>>, <<2339>> >>,
  (* line 30 *)
     << <<118, 107, 115>>, <<2323>> >>,
     << <<118, 107, 83>>, <<2324>> >>,
     << <<118, 107>>, <<2310>> >>,
     << <<98, 90>>, <<2312>> >>,
     << <<44, 115>>, <<2320>> >>,
  (* line 33 *)
     << <<123, 107>>, <<2325, 2381, 2359>> >>,
     << <<61, 107>>, <<2340, 2381, 2352>> >>,
     << <<217, 107>>, <<2340, 2381, 2340>> >>,
  (* line 34 *)
     << <<110, 122, 90>>, <<2352, 2381, 2342, 2381, 2352>> >>,
     << <<41, 90>>, <<2352, 2381, 2342, 2381, 2343>> >>,
  (* line 35 *)
     << <<78, 238>>, <<2331, 2381, 2351>> >>,
     << <<86, 238>>, <<2335, 2381, 2351>> >>,
     << <<66, 238>>, <<2336, 2381, 2351>> >>,
     << <<77, 238>>, <<2337, 2381, 2351>> >>,
     << <<60, 238>>, <<2338, 2381, 2351>> >>,
  (* line 36 *)
     << <<86, 170>>, <<2335, 2381, 2352>> >>,
     << <<77, 170>>, <<2337, 2381, 2352>> >>,
     << <<60, 170, 170>>, <<2338, 2381, 2352>> >>,
     << <<78, 170>>, <<2331, 2381, 2352>> >>,
  (* line 37 *)
     << <<120, 122>>, <<2327, 2381, 2352>> >>,
     << <<186, 122>>, <<2361, 2381, 2352>> >>,
  (* line 38 *)
     << <<232, 81, 115>>, <<2342, 2381, 2343>> >>,
  (* line 41 *)
     << <<112, 107, 83>>, <<2330, 2380>> >>,
     << <<61, 107, 107>>, <<2340, 2381, 2352, 2366>> >>,
     << <<102, 61, 107>>, <<2340, 2381, 2352, 2367>> >> >>

single_char_literal ==
  (* line 47 *)
  << << <<201>>, <<2366>> >>,
     << <<174>>, <<2352>> >>,
     << <<202>>, <<2367>> >>,
     << <<224>>, <<2350>> >>,
     << <<186>>, <<2360>> >>,
  (* line 48 *)
     << <<170>>, <<2351>> >>,
     << <<210>>, <<2368>> >>,
     << <<227>>, <<2375>> >>,
     << <<229>>, <<2344>> >>,
     << <<232>>, <<2369>> >>,
  (* line 49 *)
     << <<164>>, <<2348>> >>,
     << <<180>>, <<2371>> >>,
     << <<198>>, <<2306>> >>,
     << <<214>>, <<2369>> >>,
     << <<182>>, <<2347, 2381>> >>,
  (* line 50 *)
     << <<163>>, <<2349>> >>,
     << <<199>>, <<2352, 2381>> >>,
     << <<218>>, <<2370, 2306>> >>,
     << <<189>>, <<2354>> >>,
     << <<173>>, <<2359>> >>,
  (* line 51 *)
     << <<211>>, <<2379, 2306>> >>,
     << <<226>>, <<2370>> >>,
     << <<243>>, <<2371>> >>,
     << <<197>>, <<2314>> >>,
     << <<167>>, <<2370>> >>,
  (* line 52 *)
     << <<203>>, <<2370>> >>,
     << <<206>>, <<2368>> >>,
     << <<195>>, <<2312>> >>,
     << <<204>>, <<2367>> >>,
     << <<223>>, <<2381>> >>,
  (* line 53 *)
     << <<205>>, <<2367, 2306>> >>,
     << <<212>>, <<2380>> >>,
     << <<200>>, <<2311>> >>,
     << <<176>>, <<2416>> >>,
     << <<230>>, <<2342, 2381, 2352>> >>,
  (* line 54 *)
     << <<236>>, <<2337, 2381, 2337>> >>,
     << <<244>>, <<2325, 2381, 2325>> >>,
     << <<233>>, <<2344, 2381, 2344>> >>,
     << <<228>>, <<2325, 2381, 2340>> >>,
  (* line 57 *)
     << <<100>>, <<2325>> >>,
     << <<68>>, <<2325, 2381>> >>,
     << <<91>>, <<2326, 2381>> >>,
     << <<120>>, <<2327>> >>,
     << <<88>>, <<2327, 2381>> >>,
  (* line 58 *)
     << <<196>>, <<2328>> >>,
     << <<63>>, <<2328, 2381>> >>,
     << <<179>>, <<2329>> >>,
  (* line 59 *)
     << <<112>>, <<2330>> >>,
     << <<80>>, <<2330, 2381>> >>,
     << <<78>>, <<2331>> >>,
     << <<116>>, <<2332>> >>,
     << <<84>>, <<2332, 2381>> >>,
  (* line 60 *)
     << <<62>>, <<2333>> >>,
     << <<247>>, <<2333, 2381>> >>,
     << <<165>>, <<2334>> >>,
  (* line 61 *)
     << <<86>>, <<2335>> >>,
     << <<66>>, <<2336>> >>,
     << <<77>>, <<2337>> >>,
     << <<60>>, <<2338>> >>,
     << <<46>>, <<2339, 2381>> >>,
  (* line 62 *)
     << <<114>>, <<2340>> >>,
     << <<82>>, <<2340, 2381>> >>,
     << <<70>>, <<2341, 2381>> >>,
     << <<41>>, <<2342, 2381, 2343>> >>,
     << <<110>>, <<2342>> >>,
  (* line 63 *)
     << <<47>>, <<2343, 2381>> >>,
     << <<117>>, <<2344>> >>,
     << <<85>>, <<2344, 2381>> >>,
  (* line 64 *)
     << <<105>>, <<2346>> >>,
     << <<73>>, <<2346, 2381>> >>,
     << <<81>>, <<2347>> >>,
     << <<99>>, <<2348>> >>,
     << <<67>>, <<2348, 2381>> >>,
  (* line 65 *)
     << <<72>>, <<2349, 2381>> >>,
     << <<101>>, <<2350>> >>,
     << <<69>>, <<2350, 2381>> >>,
  (* line 66 *)
     << <<59>>, <<2351>> >>,
     << <<184>>, <<2351, 2381>> >>,
     << <<106>>, <<2352>> >>,
     << <<121>>, <<2354>> >>,
     << <<89>>, <<2354, 2381>> >>,
  (* line 67 *)
     << <<71>>, <<2355>> >>,
     << <<111>>, <<2357>> >>,
     << <<79>>, <<2357, 2381>> >>,
  (* line 68 *)
     << <<39>>, <<2358, 2381>> >>,
     << <<34>>, <<2359, 2381>> >>,
     << <<108>>, <<2360>> >>,
     << <<76>>, <<2360, 2381>> >>,
     << <<103>>, <<2361>> >>,
  (* line 71 *)
     << <<107>>, <<2366>> >>,
     << <<115>>, <<2368>> >>,
     << <<104>>, <<2369>> >>,
     << <<119>>, <<2370>> >>,
     << <<83>>, <<2375>> >>,
     << <<97>>, <<2376>> >>,
  (* line 72 *)
     << <<168>>, <<2373>> >>,
     << <<8218>>, <<2377>> >>,
  (* line 75 *)
     << <<94>>, <<2305>> >>,
     << <<126>>, <<2381>> >>,
     << <<90>>, <<2364>> >>,
  (* line 78 *)
     << <<123>>, <<2325, 2381, 2359, 2381>> >>,
     << <<61>>, <<2340, 2381, 2352, 2381>> >>,
     << <<171>>, <<2340, 2381, 2352, 2381>> >>,
  (* line 79 *)
     << <<75>>, <<2332, 2381, 2334>> >>,
     << <<74>>, <<2358, 2381, 2352>> >>,
     << <<216>>, <<2325, 2381, 2352>> >>,
     << <<221>>, <<2347, 2381, 2352>> >>,
     << <<231>>, <<2346, 2381, 2352>> >>,
  (* line 80 *)
     << <<193>>, <<2346, 2381, 2352>> >>,
     << <<237>>, <<2342, 2381, 2342>> >>,
     << <<124>>, <<2342, 2381, 2351>> >>,
     << <<125>>, <<2342, 2381, 2357>> >>,
  (* line 83 *)
     << <<35>>, <<2352, 2369>> >>,
     << <<58>>, <<2352, 2370>> >>,
     << <<8211>>, <<2342, 2371>> >>,
     << <<8212>>, <<2325, 2371>> >>,
  (* line 86 *)
     << <<118>>, <<2309>> >>,
     << <<98>>, <<2311>> >>,
     << <<109>>, <<2313>> >>,
     << <<44>>, <<2319>> >>,
     << <<95>>, <<2315>> >>,
  (* line 89 *)
     << <<48>>, <<2406>> >>,
     << <<49>>, <<2407>> >>,
     << <<50>>, <<2408>> >>,
     << <<51>>, <<2409>> >>,
     << <<52>>, <<2410>> >>,
  (* line 90 *)
     << <<53>>, <<2411>> >>,
     << <<54>>, <<2412>> >>,
     << <<55>>, <<2413>> >>,
     << <<56>>, <<2414>> >>,
     << <<57>>, <<2415>> >>,
  (* line 93 *)
     << <<241>>, <<2416>> >>,
     << <<42>>, <<2404>> >>,
  (* line 94 *)
     << <<39>>, <<39>> >>,
     << <<39>>, <<39>> >>,
     << <<58, 32, 34, 34, 34, 44, 32>>, <<34>> >> >>
(***************************************************************************)
(* The dict a display builds, as the sequence of its items in iteration    *)
(* order: a repeated key keeps the position of its first occurrence and    *)
(* takes the value of its last occurrence.                                 *)
(***************************************************************************)
display_keys(literal) ==
  LET first == SelectSeq([j \in 1..Len(literal) |-> j],
                         LAMBDA j : \A h \in 1..(j - 1) : literal[h][1] # literal[j][1])
  IN  [m \in 1..Len(first) |-> literal[first[m]][1]]

display_value(literal, key) ==
  LET last == CHOOSE j \in 1..Len(literal) :
                /\ literal[j][1] = key
                /\ \A h \in (j + 1)..Len(literal) : literal[h][1] # key
  IN  literal[last][2]

dict_of(literal) ==
  LET keys == display_keys(literal)
  IN  [m \in 1..Len(keys) |-> <<keys[m], display_value(literal, keys[m])>>]

multi_char_mapping == dict_of(multi_char_literal)

single_char_mapping == dict_of(single_char_literal)

\* mapping.keys()
dict_keys(mapping) == [m \in 1..Len(mapping) |-> mapping[m][1]]

\* mapping[key]
dict_get(mapping, key) ==
  LET item == CHOOSE j \in 1..Len(mapping) : mapping[j][1] = key
  IN  mapping[item][2]

Range(s) == {s[j] : j \in 1..Len(s)}

\* the element of a one-element set.  only({e(t) : t \in {v}}) is e applied
\* to the value of v: v is computed first, once, as the statement before e is
only(S) == CHOOSE r \in S : TRUE

MaxOf(S) == CHOOSE x \in S : \A y \in S : y <= x

(***************************************************************************)
(* sorted(keys, key=len, reverse=True): Python's sort is stable and        *)
(* reverse=True keeps the original order of elements with equal keys, so   *)
(* the result lists the keys by descending length, each length class in    *)
(* the order of `keys`.                                                    *)
(***************************************************************************)
RECURSIVE len_classes_desc(_, _)
len_classes_desc(keys, L) ==
  IF L < 0 THEN <<>>
  ELSE SelectSeq(keys, LAMBDA k : Len(k) = L) \o len_classes_desc(keys, L - 1)

RECURSIVE len_classes_asc(_, _, _)
len_classes_asc(keys, L, top) ==
  IF L > top THEN <<>>
  ELSE SelectSeq(keys, LAMBDA k : Len(k) = L) \o len_classes_asc(keys, L + 1, top)

Reverse(s) == [j \in 1..Len(s) |-> s[Len(s) + 1 - j]]

\* a sort without reverse=True: shortest keys first
sorted_len_ascending(keys) ==
  IF keys = <<>> THEN <<>>
  ELSE len_classes_asc(keys, 0, MaxOf({Len(k) : k \in Range(keys)}))

\* reversed(sorted(keys, key=len)): descending, but equal lengths in reverse order
sorted_len_ties_reversed(keys) ==
  Reverse(sorted_len_ascending(keys))

sorted_len_reverse(keys) ==
  IF keys = <<>> THEN <<>>
  ELSE len_classes_desc(keys, MaxOf({Len(k) : k \in Range(keys)}))

(***************************************************************************)
(* str.replace(old, new): every non-overlapping occurrence of old, found   *)
(* scanning left to right, is replaced by new.  With an empty old, new is  *)
(* inserted before every character and at the end.                         *)
(***************************************************************************)
RECURSIVE replace_from(_, _, _, _)
replace_from(s, old, new, p) ==
  IF p > Len(s) THEN <<>>
  ELSE IF p + Len(old) - 1 <= Len(s) /\ SubSeq(s, p, p + Len(old) - 1) = old
       THEN new \o replace_from(s, old, new, p + Len(old))
       ELSE <<s[p]>> \o replace_from(s, old, new, p + 1)

RECURSIVE interleave_from(_, _, _)
interleave_from(s, new, p) ==
  IF p > Len(s) THEN new
  ELSE new \o <<s[p]>> \o interleave_from(s, new, p + 1)

replace(s, old, new) ==
  IF old = <<>> THEN interleave_from(s, new, 1)
  ELSE replace_from(s, old, new, 1)

(***************************************************************************)
(* The iteration order of the two for loops (lines 100 and 104), each      *)
(* pattern with the value the loop body looks up for it.                   *)
(***************************************************************************)
\* multi_char_mapping.keys(), single_char_mapping.keys()
multi_keys == dict_keys(multi_char_mapping)

single_keys == dict_keys(single_char_mapping)

loop_rules(mapping, keys) ==
  LET order == sorted_len_reverse(keys)
  IN  [m \in 1..Len(order) |-> <<order[m], dict_get(mapping, order[m])>>]

multi_rules == loop_rules(multi_char_mapping, multi_keys)

single_rules == loop_rules(single_char_mapping, single_keys)

\* iterations lo..hi of one for loop, applied to s.  The iterations run in
\* order; the range is split in two halves only to keep the evaluation shallow.
RECURSIVE replace_loop(_, _, _, _)
replace_loop(s, rules, lo, hi) ==
  IF lo > hi THEN s
  ELSE IF lo = hi THEN replace(s, rules[lo][1], rules[lo][2])
  ELSE LET mid == (lo + hi) \div 2
       IN  only({replace_loop(t, rules, mid + 1, hi) :
                   t \in {replace_loop(s, rules, lo, mid)}})

(***************************************************************************)
(* Step 3, lines 108-118.                                                  *)
(***************************************************************************)
\* the condition of line 111, i 0-based
marker_with_follower(cs, j) ==
  cs[j + 1] = MARKER /\ j + 1 < Len(cs)

\* a body that keeps the marker and only writes the vowel sign after it
reorder_body_keeps_marker(cs, j) ==
  [cs EXCEPT ![j + 2] = I_MATRA]

\* a body that writes the vowel sign before the moved character
reorder_body_sign_first(cs, j) ==
  [cs EXCEPT ![j + 1] = I_MATRA, ![j + 2] = cs[j + 2]]

\* lines 112-114
reorder_body(cs, j) ==
  [cs EXCEPT ![j + 1] = cs[j + 2], ![j + 2] = I_MATRA]

RECURSIVE reorder_loop(_, _)
reorder_loop(cs, j) ==
  IF ~(j < Len(cs)) THEN cs
  ELSE IF marker_with_follower(cs, j)
       THEN only({reorder_loop(t, j + 2) : t \in {reorder_body(cs, j)}})
       ELSE reorder_loop(cs, j + 1)

(***************************************************************************)
(* The character class of line 122, negated: the codepoints that           *)
(* regex.findall does not return.  The pattern is compiled by the regex    *)
(* module (line 1), whose \s on a str pattern is the Unicode property      *)
(* White_Space: U+0009-000D, 0020, 0085, 00A0, 1680, 2000-200A, 2028,      *)
(* 2029, 202F, 205F, 3000.  The \s of the standard re module is            *)
(* str.isspace, which also holds of U+001C-U+001F; those four are not      *)
(* White_Space.                                                            *)
(***************************************************************************)
is_space(c) ==
  \/ c \in 9..13
  \/ c \in {32, 133, 160, 5760, 8232, 8233, 8239, 8287, 12288}
  \/ c \in 8192..8202

accepted(c) ==
  \/ c \in 2304..2431      \* U+0900-U+097F
  \/ c \in 32..126         \* U+0020-U+007E
  \/ is_space(c)           \* \s
  \/ c \in 2404..2405      \* U+0964-U+0965
  \/ c \in 2560..2687      \* U+0A00-U+0A7F

\* regex.findall(r"[^...]", s): the unaccepted characters of s, in order
findall_unaccepted(s) == SelectSeq(s, LAMBDA c : ~accepted(c))

\* sorted(S) for a set of characters
RECURSIVE sorted_chars(_)
sorted_chars(S) ==
  IF S = {} THEN <<>>
  ELSE LET lo == CHOOSE x \in S : \A y \in S : x <= y
       IN  <<lo>> \o sorted_chars(S \ {lo})

\* sorted(unique)[:10], the characters line 127 prints
debug_listing(found) ==
  LET all == sorted_chars(Range(found))
  IN  SubSeq(all, 1, IF Len(all) < REPORT_LIMIT THEN Len(all) ELSE REPORT_LIMIT)

\* the value returned by the function (line 129)
kruti_dev_to_unicode(s) ==
  only({reorder_loop(step2, 0) :
          step2 \in {replace_loop(step1, single_rules, 1, Len(single_rules)) :
                       step1 \in {replace_loop(s, multi_rules, 1, Len(multi_rules))}}})

(***************************************************************************)
(* Inputs.                                                                 *)
(***************************************************************************)
\* longest text drawn from Alphabet
MaxLen == 4
\* number of distinct out-of-range characters available to an input
MaxResidual == 11

\* 'f' (marker), 'd' (consonant), 'k' and '=' (parts of "=k", "=kk", "f=k"),
\* 'q' (ASCII, in no key), U+00F8 (outside the accepted ranges, in no key)
Alphabet == {102, 100, 107, 61, 113, 248}

ShortTexts == UNION {[1..m -> Alphabet] : m \in 0..MaxLen}

RECURSIVE descending(_)
descending(S) ==
  IF S = {} THEN <<>>
  ELSE LET hi == MaxOf(S) IN <<hi>> \o descending(S \ {hi})

\* the first m characters from U+00F8 on, m = 0..MaxResidual, in both orders:
\* none occurs in a key, none is in an accepted range
ResidualTexts ==
  {descending({247 + j : j \in 1..m}) : m \in 0..MaxResidual} \cup
  {sorted_chars({247 + j : j \in 1..m}) : m \in 0..MaxResidual}

MultiKeys == Range(multi_keys)

SingleKeys == Range(single_keys)

Values ==
  {multi_rules[m][2] : m \in 1..Len(multi_rules)} \cup
  {single_rules[m][2] : m \in 1..Len(single_rules)}

\* the fragment at the start of test_text (line 134)
Fixture == <<164, 201, 201, 105, 201>>

\* test_text (line 134)
test_text ==
  <<164, 201, 201, 105, 201, 32, 43, 201, 201, 232, 174, 32,
    66, 201, 68, 170, 201, 201, 32, 99, 201, 228, 32>>

Inputs ==
  ShortTexts \cup ResidualTexts \cup MultiKeys \cup SingleKeys \cup Values
  \cup {<<MARKER>> \o k : k \in SingleKeys}
  \cup {Fixture, test_text}

\* inputs of the specification that steps through the replace loops
PassInputs ==
  MultiKeys \cup {Fixture, test_text, <<102, 61, 107, 107>>, <<102, 102, 100>>,
                  <<58, 32, 34, 34, 34, 44, 32>>}

(***************************************************************************)
(* The function body as a state machine.                                   *)
(***************************************************************************)
Entry(inputs) ==
  /\ text \in inputs
  /\ converted = text            \* line 97
  /\ pc = "multi"
  /\ n = 0
  /\ applied = <<>>
  /\ chars = <<>>
  /\ i = 0
  /\ handled = {}
  /\ result = <<>>
  /\ unconverted = <<>>
  /\ reported = <<>>

Init == Entry(Inputs)

InitPasses == Entry(PassInputs)

\* lines 100-101, the whole loop
MultiLoop ==
  /\ pc = "multi" /\ n = 0
  /\ converted' = replace_loop(converted, multi_rules, 1, Len(multi_rules))
  /\ pc' = "single"
  /\ UNCHANGED <<text, n, applied, chars, i, handled, result, unconverted, reported>>

\* lines 104-105, the whole loop, then lines 108-109
SingleLoop ==
  /\ pc = "single" /\ n = 0
  /\ converted' = replace_loop(converted, single_rules, 1, Len(single_rules))
  /\ chars' = converted'
  /\ i' = 0
  /\ pc' = "reorder"
  /\ UNCHANGED <<text, n, applied, handled, result, unconverted, reported>>

\* one iteration of the loop of lines 100-101
MultiStep ==
  /\ pc = "multi" /\ n < Len(multi_rules)
  /\ converted' = replace(converted, multi_rules[n + 1][1], multi_rules[n + 1][2])
  /\ applied' = Append(applied, <<"multi", multi_rules[n + 1][1]>>)
  /\ n' = n + 1
  /\ UNCHANGED <<text, pc, chars, i, handled, result, unconverted, reported>>

\* the loop of line 100 is exhausted
MultiExit ==
  /\ pc = "multi" /\ n = Len(multi_rules)
  /\ pc' = "single"
  /\ n' = 0
  /\ UNCHANGED <<text, converted, applied, chars, i, handled, result,
                 unconverted, reported>>

\* one iteration of the loop of lines 104-105
SingleStep ==
  /\ pc = "single" /\ n < Len(single_rules)
  /\ converted' = replace(converted, single_rules[n + 1][1], single_rules[n + 1][2])
  /\ applied' = Append(applied, <<"single", single_rules[n + 1][1]>>)
  /\ n' = n + 1
  /\ UNCHANGED <<text, pc, chars, i, handled, result, unconverted, reported>>

\* the loop of line 104 is exhausted; lines 108-109
SingleExit ==
  /\ pc = "single" /\ n = Len(single_rules)
  /\ chars' = converted
  /\ i' = 0
  /\ pc' = "reorder"
  /\ n' = 0
  /\ UNCHANGED <<text, converted, applied, handled, result, unconverted, reported>>

\* one iteration of the while loop, lines 110-116
ReorderStep ==
  /\ pc = "reorder" /\ i < Len(chars)
  /\ IF marker_with_follower(chars, i)
     THEN /\ chars' = reorder_body(chars, i)
          /\ i' = i + 2
          /\ handled' = handled \cup {i}
     ELSE /\ i' = i + 1
          /\ UNCHANGED <<chars, handled>>
  /\ UNCHANGED <<text, converted, pc, n, applied, result, unconverted, reported>>

\* the while condition fails; line 118
ReorderExit ==
  /\ pc = "reorder" /\ ~(i < Len(chars))
  /\ result' = chars
  /\ pc' = "scan"
  /\ UNCHANGED <<text, converted, n, applied, chars, i, handled, unconverted, reported>>

\* lines 122-129
ResidualScan ==
  /\ pc = "scan"
  /\ unconverted' = findall_unaccepted(result)
  /\ reported' = IF unconverted' # <<>> THEN debug_listing(unconverted') ELSE <<>>
  /\ pc' = "done"
  /\ UNCHANGED <<text, converted, n, applied, chars, i, handled, result>>

Next == MultiLoop \/ SingleLoop \/ ReorderStep \/ ReorderExit \/ ResidualScan

Spec == Init /\ [][Next]_vars

\* the while loop of lines 110-116 is not suspended: an iteration, or the
\* exit, that can run does run
FairSpec == Spec /\ WF_vars(ReorderStep) /\ WF_vars(ReorderExit)

NextPasses ==
  MultiStep \/ MultiExit \/ SingleStep \/ SingleExit
  \/ ReorderStep \/ ReorderExit \/ ResidualScan

SpecPasses == InitPasses /\ [][NextPasses]_vars

(***************************************************************************)
(* Consistency of the model: the stepped function body returns the value   *)
(* of the operator kruti_dev_to_unicode.                                   *)
(***************************************************************************)
ReturnsFunctionValue ==
  pc = "done" => result = kruti_dev_to_unicode(text)

(***************************************************************************)
(* Properties.                                                             *)
(***************************************************************************)
\* a replacement value that is one consonant letter, U+0915-U+0939
IsConsonant(v) == Len(v) = 1 /\ v[1] \in 2325..2361

IsProperPrefix(a, b) == Len(a) < Len(b) /\ SubSeq(b, 1, Len(a)) = a

\* the character occurs in a key of one of the two tables
InSomeKey(c) == \E k \in MultiKeys \cup SingleKeys : c \in Range(k)

\* position of a key in the iteration order of its dict
multi_position == [k \in MultiKeys |->
  CHOOSE j \in 1..Len(multi_keys) : multi_keys[j] = k]

single_position == [k \in SingleKeys |->
  CHOOSE j \in 1..Len(single_keys) : single_keys[j] = k]

Position(e) == IF e[1] = "multi" THEN multi_position[e[2]] ELSE single_position[e[2]]

\* C1: an input that is exactly a key of the multi-unit table converts to that
\* key's replacement value, not to what its shorter sub-keys would give.
C1_LongestMatch ==
  pc = "done" =>
    \A m \in 1..Len(multi_rules) :
      text = multi_rules[m][1] => result = multi_rules[m][2]

\* a multi-unit key with a proper prefix that is a multi-unit key too ("vks",
\* "[+k", ...) has been converted to its own value
C1_Witness ==
  /\ pc = "done"
  /\ \E m \in 1..Len(multi_rules) :
       /\ text = multi_rules[m][1]
       /\ \E k \in MultiKeys : IsProperPrefix(k, text)
       /\ result = multi_rules[m][2]

\* C2: "fd", and 'f' followed by any single-unit key whose value is one
\* consonant letter, converts to the consonant followed by U+093F, with no 'f'
\* left in the output.
C2_Reordering ==
  pc = "done" =>
    /\ text = <<102, 100>> => result = <<2325, 2367>>
    /\ \A m \in 1..Len(single_rules) :
         ( /\ Len(single_rules[m][1]) = 1
           /\ IsConsonant(single_rules[m][2])
           /\ text = <<MARKER>> \o single_rules[m][1] )
         => /\ result = single_rules[m][2] \o <<I_MATRA>>
            /\ MARKER \notin Range(result)

\* "fd" has been converted to U+0915 U+093F
C2_Witness ==
  pc = "done" /\ text = <<102, 100>> /\ handled = {0} /\ result = <<2325, 2367>>

\* C3: an input ending in 'f' returns a text ending in 'f', and 'f' is in the
\* residual report.
C3_TrailingMarker ==
  (pc = "done" /\ text # <<>> /\ text[Len(text)] = MARKER)
  => /\ result # <<>>
     /\ result[Len(result)] = MARKER
     /\ MARKER \in Range(reported)

\* C4: every character of the input that is in no key and outside the accepted
\* ranges is in the returned text and in the residual report, however many
\* there are; no accepted character is reported.
C4_ResidualReport ==
  pc = "done" =>
    /\ \A p \in 1..Len(text) :
         (~InSomeKey(text[p]) /\ ~accepted(text[p]))
         => (text[p] \in Range(result) /\ text[p] \in Range(reported))
    /\ \A c \in Range(reported) : ~accepted(c)

\* C5: the fixture converts to U+092C U+093E U+093E U+0924 U+093E.
C5_Fixture ==
  (pc = "done" /\ text = Fixture) => result = <<2348, 2366, 2366, 2340, 2366>>

\* C6: converting a replacement value of either table returns it unchanged.
C6_Idempotence ==
  (pc = "done" /\ text \in Values) => result = text

\* C7: of two adjacent markers in the text entering the reordering pass, each
\* is handled by the swap rule against the character that follows it.
C7_ConsecutiveMarkers ==
  pc \in {"scan", "done"} =>
    \A j \in 0..(Len(converted) - 2) :
      (converted[j + 1] = MARKER /\ converted[j + 2] = MARKER)
      => /\ j \in handled
         /\ (j + 2 < Len(converted) => (j + 1) \in handled)

\* C8: in the tables the function has built when it enters its first loop,
\* every multi-unit key has length >= 2, every single-unit key has length 1,
\* and every replacement value is non-empty.
C8_TableShape ==
  pc = "multi" =>
  /\ \A k \in MultiKeys : Len(k) >= 2
  /\ \A k \in SingleKeys : Len(k) = 1
  /\ \A v \in Values : Len(v) >= 1

\* the key applied last is in order after the key applied at position a
InPassOrder(a) ==
  LET x == applied[a]
      y == applied[Len(applied)]
  IN  /\ ~(x[1] = "single" /\ y[1] = "multi")
      /\ x[1] = y[1] =>
           /\ Len(x[2]) >= Len(y[2])
           /\ Len(x[2]) = Len(y[2]) => Position(x) < Position(y)

\* C9: the replace passes run one key at a time: all multi-unit keys before
\* any single-unit key, no key before a longer key of its table, keys of equal
\* length in declaration order; so in "f=kk" the key "=kk" claims the text
\* before "f=k".
C9_PassOrdering ==
  /\ \A a \in 1..(Len(applied) - 1) : InPassOrder(a)
  /\ pc \notin {"multi", "single"} =>
       Range(applied) = {<<"multi", k>> : k \in MultiKeys} \cup
                        {<<"single", k>> : k \in SingleKeys}
  /\ (pc = "reorder" /\ text = <<102, 61, 107, 107>>) =>
       converted = <<102, 2340, 2381, 2352, 2366>>

\* both loops have run over "f=kk", and "=kk" was replaced
C9_Witness ==
  /\ pc = "reorder"
  /\ text = <<102, 61, 107, 107>>
  /\ Len(applied) = Len(multi_rules) + Len(single_rules)
  /\ converted = <<102, 2340, 2381, 2352, 2366>>

\* the state after the reordering pass, against the text that entered it
ReorderPost ==
  /\ Len(result) = Len(converted)
  /\ \A p \in 1..Len(result) :
       result[p] = MARKER => (p = Len(result) \/ result[p + 1] = I_MATRA)
  /\ \A j \in handled :
       result[j + 1] = converted[j + 2] /\ result[j + 2] = I_MATRA
  /\ \A p \in 1..Len(result) :
       ((p - 1) \notin handled /\ (p - 2) \notin handled) => result[p] = converted[p]

\* C10: the reordering pass terminates; its output has the length of its
\* input; an 'f' left in the output is the last character or is followed by
\* U+093F; each handled pair (i, i+1) holds (old character at i+1, U+093F) and
\* no other character is changed.
C10_ReorderPass ==
  /\ [](pc \in {"scan", "done"} => ReorderPost)
  /\ (pc = "reorder") ~> (pc = "scan")

\* a pass that handled a marker and left an 'f' that is not the last character
C10_Witness ==
  /\ pc = "done"
  /\ handled # {}
  /\ \E p \in 1..(Len(result) - 1) : result[p] = MARKER

====
